---- MODULE Spec2Model ----
(***************************************************************************)
(* Model of the multi-pair mock market maker (src/market-maker.mjs, lines  *)
(* 1-275) as an event-loop state machine.  One action is one run of the    *)
(* JavaScript code between two awaits: it consumes the response of the     *)
(* call a cycle is suspended on and runs the code up to the next await     *)
(* (sending the next request on the way) or up to process.exit.            *)
(***************************************************************************)
EXTENDS Integers, Sequences, FiniteSets, TLC

(* ---------------- program constants (configuration defaults) ----------- *)
\* LEVELS and MAX_ERRORS are read from the environment; the model runs the
\* program with LEVELS=2 and MAX_ERRORS=2.
LEVELS == 2
MAX_ERRORS == 2
\* PRIV_HEX.length must be 64; the PKCS8 header announces a 32-byte seed.
SEED_HEX_LEN == 64
SEED_BYTES == 32
\* fallback price 0.04 of the pair that is not on the external venue, in
\* units of 0.0001 (prices are submitted with toFixed(4)).
NOMINAL_PRICE == 400

(* ---------------- bounds of the model ---------------------------------- *)
\* number of ticks (calls of cycleAll) the model follows
MaxTicks == 3
\* number of cycleForPair calls that unfinished ticks may hold at the same time
MaxInFlight == 2
\* number of entries of a parameter object handed to buildQS
MaxParams == 3
\* deepest ladder level computed on its own
MaxLevel == 3
\* milliseconds the clock is followed for
MaxClock == 3

(* ---------------- configuration ---------------------------------------- *)
OWN_EXCHANGE_PAIR == "0G-USDC"
AllPairs == {"BTC-USDC", OWN_EXCHANGE_PAIR}
\* PAIRS is the default list or whatever PAIRS_JSON holds
PairConfigs == {{"BTC-USDC"}, {OWN_EXCHANGE_PAIR}, AllPairs}
ApiKeys == {"", "key"}
\* a seed string: its length and the length of its longest all-hex prefix
Seeds == {s \in [len : {0, SEED_HEX_LEN - 1, SEED_HEX_LEN}, hex : {0, SEED_HEX_LEN - 1, SEED_HEX_LEN}] :
            s.hex <= s.len}
Ticks == 1..MaxTicks

VARIABLES
    apiKey,             \* API_KEY
    seed,               \* PRIV_HEX
    PAIRS,              \* the configured pairs (symbols)
    phase,              \* "boot" | "first" (first cycleAll awaited) | "loop" | "exited"
    exitStatus,         \* "none" | "0" | "1" | "SIGINT" (killed by the signal)
    exitCause,          \* "none" | "startup" | "threshold" | "expired" | "sigint"
    timer,              \* "unset" | "active" | "cleared"
    sigintHandler,      \* process.on("SIGINT") has been registered
    cycleCount,         \* cycleCount
    consecutiveErrors,  \* pairStates[symbol].consecutiveErrors
    cycles,             \* cycles[t][p]: the cycleForPair(p) call of tick t
    call,               \* a call of a helper function on its own: arguments, result
    now,                \* Date.now(): the wall clock in milliseconds
    single              \* the single-pair variant run beside the engine: its state

engineVars == <<apiKey, seed, PAIRS, phase, exitStatus, exitCause, timer, sigintHandler,
                cycleCount, consecutiveErrors, cycles>>
vars == <<engineVars, call, now, single>>

(* ---------------- signing ---------------------------------------------- *)
\* Buffer.from(PRIV_HEX, "hex"): decodes two characters per byte and stops
\* at the first pair that is not hexadecimal
hexDecodeLen(s) == s.hex \div 2

\* createPrivateKey on header+seed succeeds iff the seed has the 32 bytes
\* the header announces; sign("test") throws otherwise
getPrivateKeyOK(s) == hexDecodeLen(s) = SEED_BYTES

ValidateOK(key, s) == key # "" /\ s.len = SEED_HEX_LEN

SelfTestOK_Skipped(s) == TRUE
SelfTestOK(s) == getPrivateKeyOK(s)

(* ---------------- request signer: canonical string --------------------- *)
\* keys of a parameter object.  The last two are the same letter written
\* composed (U+00E9) and decomposed (e, U+0301): two distinct property names
\* that are canonically equivalent.
ParamKeys == {"side", "symbol", "\\u00e9", "e\\u0301"}
ParamValues == {"undefined", "BUY", "a b"}

\* a parameter object as Object.entries sees it: its entries in insertion
\* order, no key twice
ParamObjects ==
    {s \in UNION {[1..n -> [key : ParamKeys, value : ParamValues]] : n \in 0..MaxParams} :
        \A i \in DOMAIN s : \A j \in DOMAIN s : i # j => s[i].key # s[j].key}

\* strings are read one character at a time
charAt(s, i) == SubSeq(s, i, i)
\* String.prototype.indexOf for one character, counted from 1; 0 when absent
indexOf(s, ch) ==
    LET hits == {i \in 1..Len(s) : charAt(s, i) = ch}
    IN  IF hits = {} THEN 0 ELSE CHOOSE i \in hits : \A j \in hits : i <= j

\* a.localeCompare(b): the strings are compared letter by letter without
\* regard to case or accent; strings with the same letters are then ordered
\* by case, lower case first; strings that are canonically equivalent
\* compare as 0
Lower == "abcdefghijklmnopqrstuvwxyz"
Upper == "ABCDEFGHIJKLMNOPQRSTUVWXYZ"
\* the letters of a key: an accented letter counts as its base letter
collationKey(k) ==
    CASE k = "\\u00e9"  -> "e"
      [] k = "e\\u0301" -> "e"
      [] OTHER          -> k
\* the weight of a letter; digits come before letters
primaryWeight(ch) ==
    IF indexOf(Lower, ch) # 0 THEN indexOf(Lower, ch) ELSE indexOf(Upper, ch)
RECURSIVE comparePrimary(_, _)
comparePrimary(a, b) ==
    IF a = "" /\ b = "" THEN 0
    ELSE IF a = "" THEN -1
    ELSE IF b = "" THEN 1
    ELSE IF primaryWeight(charAt(a, 1)) < primaryWeight(charAt(b, 1)) THEN -1
    ELSE IF primaryWeight(charAt(a, 1)) > primaryWeight(charAt(b, 1)) THEN 1
    ELSE comparePrimary(SubSeq(a, 2, Len(a)), SubSeq(b, 2, Len(b)))
RECURSIVE compareCase(_, _)
compareCase(a, b) ==
    IF a = "" \/ b = "" THEN 0
    ELSE IF indexOf(Lower, charAt(a, 1)) # 0 /\ indexOf(Upper, charAt(b, 1)) # 0 THEN -1
    ELSE IF indexOf(Upper, charAt(a, 1)) # 0 /\ indexOf(Lower, charAt(b, 1)) # 0 THEN 1
    ELSE compareCase(SubSeq(a, 2, Len(a)), SubSeq(b, 2, Len(b)))
localeCompare(a, b) ==
    IF comparePrimary(collationKey(a), collationKey(b)) # 0
    THEN comparePrimary(collationKey(a), collationKey(b))
    ELSE compareCase(collationKey(a), collationKey(b))

\* Array.prototype.sort with the comparator of buildQS: a stable sort, entries
\* that compare as 0 keep the order they came in
RECURSIVE insertEntry(_, _)
insertEntry(sorted, e) ==
    IF sorted = <<>> \/ localeCompare(sorted[Len(sorted)].key, e.key) <= 0
    THEN Append(sorted, e)
    ELSE Append(insertEntry(SubSeq(sorted, 1, Len(sorted) - 1), e), sorted[Len(sorted)])
RECURSIVE sortEntries(_)
sortEntries(s) ==
    IF s = <<>> THEN <<>>
    ELSE insertEntry(sortEntries(SubSeq(s, 1, Len(s) - 1)), s[Len(s)])

\* encodeURIComponent: unreserved characters stay, the others become the
\* percent-escaped bytes of their UTF-8 encoding
Unreserved == Lower \o Upper \o "0123456789-_.!~*'()"
escape(ch) ==
    CASE ch = " " -> "%20"
      [] ch = "&" -> "%26"
      [] ch = "+" -> "%2B"
      [] ch = "/" -> "%2F"
      [] ch = "=" -> "%3D"
      [] OTHER    -> "%3F"
RECURSIVE escapeAll(_)
escapeAll(x) ==
    IF x = "" THEN ""
    ELSE (IF indexOf(Unreserved, charAt(x, 1)) # 0 THEN charAt(x, 1) ELSE escape(charAt(x, 1)))
         \o escapeAll(SubSeq(x, 2, Len(x)))
encodeURIComponent(x) ==
    CASE x = "\\u00e9"   -> "%C3%A9"
      [] x = "e\\u0301"  -> "e%CC%81"
      [] OTHER           -> escapeAll(x)

\* Array.prototype.join("&")
RECURSIVE join(_)
join(parts) ==
    IF parts = <<>> THEN ""
    ELSE IF Len(parts) = 1 THEN parts[1]
    ELSE parts[1] \o "&" \o join(Tail(parts))

IsSet(e) == e.value # "undefined"
buildQS(params) ==
    LET sorted == sortEntries(SelectSeq(params, IsSet))
    IN  join([i \in DOMAIN sorted |->
                encodeURIComponent(sorted[i].key) \o "=" \o encodeURIComponent(sorted[i].value)])

\* sign(message): Ed25519 is deterministic, the signature is a function of
\* the key and the message
sign(message) == [of |-> message]

\* signedBody(params): the canonical string of the parameters and of the
\* timestamp Date.now() returns at the call, and its signature
signedBody(params, timestamp) ==
    LET qs == [params |-> params, timestamp |-> timestamp]
    IN  [qs |-> qs, signature |-> sign(qs)]

\* the text of signedBody.  The canonical string: buildQS of the parameters
\* with the timestamp spread in as the last property
canonicalString(params, timestamp) ==
    buildQS(Append(params, [key |-> "timestamp", value |-> timestamp]))
\* the body on the wire: `${qs}&signature=${encodeURIComponent(sig)}`
bodyText_SignatureFirst(qs, sig) == "signature=" \o encodeURIComponent(sig) \o "&" \o qs
bodyText(qs, sig) == qs \o "&signature=" \o encodeURIComponent(sig)

\* getSymbols(symbolStr).backend: the first "-" removed and PERP appended, or
\* the first "/" removed
backendSymbol(symbolStr) ==
    IF indexOf(symbolStr, "-") # 0
    THEN SubSeq(symbolStr, 1, indexOf(symbolStr, "-") - 1)
         \o SubSeq(symbolStr, indexOf(symbolStr, "-") + 1, Len(symbolStr)) \o "PERP"
    ELSE IF indexOf(symbolStr, "/") # 0
    THEN SubSeq(symbolStr, 1, indexOf(symbolStr, "/") - 1)
         \o SubSeq(symbolStr, indexOf(symbolStr, "/") + 1, Len(symbolStr))
    ELSE symbolStr

\* the entries of PAIRS for the two pairs, values as String() prints them
PairEntry(symbol) ==
    IF symbol = "BTC-USDC"
    THEN [symbol |-> symbol, productId |-> "2", quantity |-> "0.0123"]
    ELSE [symbol |-> symbol, productId |-> "8", quantity |-> "100"]

\* the params object placeOrder builds; "" is a falsy timeInForce or price
placeOrderParams(pair, side, type, timeInForce, price, qty) ==
    << [key |-> "productId", value |-> pair.productId],
       [key |-> "quantity", value |-> IF qty = "undefined" THEN pair.quantity ELSE qty],
       [key |-> "side", value |-> side],
       [key |-> "symbol", value |-> backendSymbol(pair.symbol)],
       [key |-> "type", value |-> type] >>
    \o (IF timeInForce # "" THEN << [key |-> "timeInForce", value |-> timeInForce] >> ELSE << >>)
    \o (IF price # "" THEN << [key |-> "price", value |-> price] >> ELSE << >>)
\* the params object of the cancel call
cancelParams(pair) == << [key |-> "symbol", value |-> backendSymbol(pair.symbol)] >>

(* ---------------- price source ----------------------------------------- *)
\* the markPrice field of the JSON answer
PriceFields == {"missing", "abc", "0", "50000.00"}
PriceResponses ==
    {[status |-> "reject", markPrice |-> "missing"],
     [status |-> "non2xx", markPrice |-> "missing"]}
    \cup {[status |-> "ok", markPrice |-> f] : f \in PriceFields}

\* parseFloat as a JavaScript number: NaN or a value in units of 0.0001
parseFloat(f) ==
    CASE f = "50000.00" -> [nan |-> FALSE, val |-> 500000000]
      [] f = "0"        -> [nan |-> FALSE, val |-> 0]
      [] OTHER          -> [nan |-> TRUE, val |-> 0]

\* truthiness of item.markPrice: undefined is falsy, a non-empty string truthy
Truthy(f) == f # "missing"

\* !markPrice : NaN and 0 are falsy
Falsy_NaNOnly(x) == x.nan
Falsy(x) == x.nan \/ x.val = 0

\* the mark price a cycle computes from the answer r, as a JavaScript number;
\* a let that was never assigned is undefined, which is falsy like NaN
Undefined == [nan |-> TRUE, val |-> 0]
markPriceOf(p, r) ==
    IF p = OWN_EXCHANGE_PAIR
    THEN LET fetched == IF r.status = "ok" /\ Truthy(r.markPrice)
                        THEN parseFloat(r.markPrice) ELSE Undefined
         IN  IF Falsy(fetched) THEN [nan |-> FALSE, val |-> NOMINAL_PRICE] ELSE fetched
    ELSE parseFloat(r.markPrice)

\* step 1 throws: the fetch rejects, Binance answers non-2xx, or !markPrice
priceThrows(p, r) ==
    \/ r.status = "reject"
    \/ p # OWN_EXCHANGE_PAIR /\ r.status # "ok"
    \/ Falsy(markPriceOf(p, r))

\* what the price source answered: the fetch failed ("reject"), a status
\* outside 2xx ("non2xx"), no markPrice field ("missing"), a non-numeric
\* field ("nan"), a zero price ("zero") or a usable price ("ok")
priceClass(r) ==
    CASE r.status # "ok"               -> r.status
      [] r.markPrice = "missing"       -> "missing"
      [] parseFloat(r.markPrice).nan   -> "nan"
      [] parseFloat(r.markPrice).val = 0 -> "zero"
      [] OTHER                         -> "ok"

(* ---------------- exchange --------------------------------------------- *)
ExchangeResponses == {"reject", "ok", "non2xx", "401"}

\* the cancel call throws only when the request itself fails; cancelRes.ok
\* is only logged
cancelThrows_OnNon2xx(r) == r # "ok"
cancelThrows_OnExpiry(r) == r \in {"reject", "401"}
cancelThrows(r) == r = "reject"

\* placeOrder: "next" (res.ok), "expired" (401) or "throw"
placeOrder(r) ==
    CASE r = "ok"  -> "next"
      [] r = "401" -> "expired"
      [] OTHER     -> "throw"

\* the placements of one cycle in program order: BID[1..LEVELS],
\* ASK[1..LEVELS], Match BUY, Match SELL
NumPlacements_LadderOnly == 2 * LEVELS
NumPlacements == 2 * LEVELS + 2
Placement_Interleaved(k) ==
    CASE k <= 2 * LEVELS /\ k % 2 = 1 -> [side |-> "BUY",  level |-> (k + 1) \div 2, match |-> FALSE]
      [] k <= 2 * LEVELS /\ k % 2 = 0 -> [side |-> "SELL", level |-> k \div 2, match |-> FALSE]
      [] k = 2 * LEVELS + 1           -> [side |-> "BUY",  level |-> 0, match |-> TRUE]
      [] OTHER                        -> [side |-> "SELL", level |-> 0, match |-> TRUE]
Placement(k) ==
    CASE k <= LEVELS         -> [side |-> "BUY",  level |-> k, match |-> FALSE]
      [] k <= 2 * LEVELS     -> [side |-> "SELL", level |-> k - LEVELS, match |-> FALSE]
      [] k = 2 * LEVELS + 1  -> [side |-> "BUY",  level |-> 0, match |-> TRUE]
      [] OTHER               -> [side |-> "SELL", level |-> 0, match |-> TRUE]

\* the requests of a cycle as they go out: the price fetch, the cancel call,
\* placement number k
PriceRequest == [kind |-> "price", side |-> "none", level |-> 0, match |-> FALSE]
CancelRequest == [kind |-> "cancel", side |-> "none", level |-> 0, match |-> FALSE]
OrderRequest(k) ==
    [kind |-> "order", side |-> Placement(k).side, level |-> Placement(k).level,
     match |-> Placement(k).match]

(* ---------------- alert sink -------------------------------------------- *)
\* how the message-send call of an alert ends: delivered, answered with a
\* status outside 2xx, or the fetch rejects
AlertOutcomes == {"sent", "non2xx", "reject"}

\* sendTelegram: the fetch is awaited inside try/catch with an empty handler and
\* its answer is not looked at, so the call returns whatever the outcome
sendTelegram_Propagates(o) == IF o = "reject" THEN "throw" ELSE "return"
sendTelegram(o) ==
    CASE o = "reject" -> "return"
      [] OTHER        -> "return"

(* ---------------- ladder ------------------------------------------------ *)
\* Numbers are exact fractions here: a price or a quantity is a count of
\* units of 0.0001, a spread a count of units of 0.001.
\* x.toFixed(4) for x = num/den units, x >= 0: the nearest count of units.
\* The program computes x in binary floating point, which lands on either
\* side of an exact tie, so a tie can come out as either neighbour.
toFixed_Truncating(num, den) == {num \div den}
toFixed(num, den) ==
    IF (2 * num) % (2 * den) = den
    THEN {num \div den, num \div den + 1}
    ELSE {(2 * num + den) \div (2 * den)}

\* (markPrice * factor).toFixed(4) for a factor of permille thousandths; the
\* whole thousands of markPrice are multiplied apart to stay within 32 bits
scaledPrice(markPrice, permille) ==
    {(markPrice \div 1000) * permille + r : r \in toFixed((markPrice % 1000) * permille, 1000)}

\* (markPrice * (1 - pair.spread * i)).toFixed(4)
bidPrice(markPrice, spread, i) == scaledPrice(markPrice, 1000 - spread * i)
\* (markPrice * (1 + pair.spread * i)).toFixed(4)
askPrice(markPrice, spread, i) == scaledPrice(markPrice, 1000 + spread * i)
\* (parseFloat(pair.quantity) * (1 + (i - 1) * 0.5)).toFixed(4)
levelQty_FromLevel(quantity, i) == toFixed(quantity * (2 + i), 2)
levelQty(quantity, i) == toFixed(quantity * (2 + (i - 1)), 2)


\* pair.quantity of the two pairs, in units of 0.0001
baseQuantity(symbol) == IF symbol = "BTC-USDC" THEN 123 ELSE 1000000
\* markPrice.toFixed(4) for a mark price of num/den units
matchPrice(num, den) == toFixed(num, den)
\* the arguments of the two placeOrder calls of the Match step; mpStr is
\* computed once and passed to both
matchOrders_SpreadApart(symbol, mpStr) ==
    << [side |-> "BUY", type |-> "LIMIT", timeInForce |-> "GTC", price |-> mpStr - 1,
        qty |-> baseQuantity(symbol)],
       [side |-> "SELL", type |-> "LIMIT", timeInForce |-> "GTC", price |-> mpStr + 1,
        qty |-> baseQuantity(symbol)] >>
matchOrders(symbol, mpStr) ==
    << [side |-> "BUY", type |-> "LIMIT", timeInForce |-> "GTC", price |-> mpStr,
        qty |-> baseQuantity(symbol)],
       [side |-> "SELL", type |-> "LIMIT", timeInForce |-> "GTC", price |-> mpStr,
        qty |-> baseQuantity(symbol)] >>

(* ---------------- pair state ------------------------------------------- *)
resetErrors_Keep(ce, p) == ce
resetErrors(ce, p) == [ce EXCEPT ![p] = 0]

bumpErrors_PerCall(ce, p) == [ce EXCEPT ![p] = @ + 2]
bumpErrors_Shared(ce, p) == [q \in DOMAIN ce |-> ce[q] + 1]
bumpErrors(ce, p) == [ce EXCEPT ![p] = @ + 1]

reachedMax(n) == n >= MAX_ERRORS

(* ---------------- cycles ----------------------------------------------- *)
\* pc: "idle"    not started          "price"   awaiting the price fetch
\*     "cancel"  awaiting the cancel  "place"   awaiting placement number k
\*     "expired" awaiting the alert of a 401
\*     "warn"    awaiting the warning alert in the catch block
\*     "fatal"   awaiting the fatal alert
\*     "done"    settled              "exit"    called process.exit
\* res: the response (or alert outcome) the cycle handled last; at: the step
\* that threw;
\* nCancel, nPlace: requests sent to the exchange; sent: all requests sent, in
\* the order they went out; alerts: alerts emitted;
\* errBefore: the counter as this cycle found it when it last wrote it.
\* ts: the timestamp in the signed body of the request the cycle awaits.
\* k, mark and ts are locals of the try block and are dropped when it is left;
\* res, errBefore, nCancel, nPlace and sent of a failed cycle are dropped when its
\* warning alert has returned.
IdleCycle == [pc |-> "idle", k |-> 0, mark |-> 0, res |-> "none", at |-> "none",
              nCancel |-> 0, nPlace |-> 0, alerts |-> <<>>, errBefore |-> 0, ts |-> 0,
              sent |-> <<>>]
GoneCycle == [IdleCycle EXCEPT !.pc = "gone"]

\* the business parameters of the request a cycle awaits: the symbol for the
\* cancel call; symbol, side, price and quantity, which the placement number
\* and the mark price determine, for a placement
requestParams(p, c) ==
    IF c.pc = "cancel"
    THEN [symbol |-> p, placement |-> 0, markPrice |-> 0]
    ELSE [symbol |-> p, placement |-> c.k, markPrice |-> c.mark]
\* the body of the request a cycle awaits
wireBody(p, c) == signedBody(requestParams(p, c), c.ts)

AwaitingPcs == {"price", "cancel", "place", "expired", "warn", "fatal"}
\* the cycleForPair calls of the ticks whose cycleAll has not returned yet
InFlight == Cardinality({tp \in Ticks \X AllPairs :
                            cycles[tp[1]][tp[2]].pc \in AwaitingPcs \cup {"done"}})
Running == phase \in {"first", "loop"}

NoCall == [fn |-> "none"]

\* the single-pair variant before its top-level code has run: its process,
\* its one counter, and cycles[t], the cycle() call of tick t
SingleCycle == [pc |-> "idle", k |-> 0, sent |-> <<>>, alerts |-> <<>>]
SingleIdle ==
    [phase |-> "boot", exitStatus |-> "none", timer |-> "unset", sigintHandler |-> FALSE,
     cycleCount |-> 0, consecutiveErrors |-> 0, cycles |-> [t \in Ticks |-> SingleCycle]]

Init ==
    /\ apiKey \in ApiKeys
    /\ seed \in Seeds
    /\ PAIRS \in PairConfigs
    /\ phase = "boot"
    /\ exitStatus = "none"
    /\ exitCause = "none"
    /\ timer = "unset"
    /\ sigintHandler = FALSE
    /\ cycleCount = 0
    /\ consecutiveErrors = [p \in AllPairs |-> 0]
    /\ cycles = [t \in Ticks |-> [p \in AllPairs |-> IdleCycle]]
    /\ call = NoCall
    /\ now = 0
    /\ single = SingleIdle

\* process.exit(status)
Exit(status, cause, clear) ==
    /\ phase' = "exited"
    /\ exitStatus' = status
    /\ exitCause' = cause
    /\ timer' = IF clear /\ timer = "active" THEN "cleared" ELSE timer

\* cycleAll up to its await: cycleCount++ and every pair's cycleForPair runs
\* up to its price fetch
cycleAll(t) ==
    /\ cycleCount' = cycleCount + 1
    /\ cycles' = [cycles EXCEPT ![t] =
                    [p \in AllPairs |-> IF p \in PAIRS
                                        THEN [IdleCycle EXCEPT !.pc = "price", !.sent = <<PriceRequest>>]
                                        ELSE IdleCycle]]

\* top-level code: validation, signing self-test, first cycleAll()
StartupCode ==
    /\ phase = "boot"
    /\ IF ValidateOK(apiKey, seed) /\ SelfTestOK(seed)
       THEN /\ phase' = "first"
            /\ cycleAll(1)
            /\ UNCHANGED <<exitStatus, exitCause, timer>>
       ELSE /\ Exit("1", "startup", FALSE)
            /\ UNCHANGED <<cycleCount, cycles>>
    /\ UNCHANGED <<apiKey, seed, PAIRS, sigintHandler, consecutiveErrors>>
    /\ UNCHANGED <<call, now>>
Startup == StartupCode /\ UNCHANGED single

\* the catch block up to its first await: count, log, send the warning
Catch(t, p, r, where) ==
    /\ consecutiveErrors' = bumpErrors(consecutiveErrors, p)
    /\ cycles' = [cycles EXCEPT ![t][p] =
                    [@ EXCEPT !.pc = "warn", !.k = 0, !.mark = 0, !.ts = 0, !.res = r,
                              !.at = where,
                              !.alerts = Append(@, "warning"),
                              !.errBefore = consecutiveErrors[p]]]
    /\ UNCHANGED <<apiKey, seed, PAIRS, phase, exitStatus, exitCause, timer,
                   sigintHandler, cycleCount>>

\* the price fetch returns: throw, or compute markPrice and send the cancel
PriceReturnOn(t, p, r) ==
    /\ Running
    /\ cycles[t][p].pc = "price"
    /\ r \in PriceResponses
    /\ IF priceThrows(p, r)
          THEN Catch(t, p, priceClass(r), "price")
          ELSE /\ cycles' = [cycles EXCEPT ![t][p] =
                               [@ EXCEPT !.pc = "cancel", !.mark = markPriceOf(p, r).val,
                                         !.res = priceClass(r), !.nCancel = @ + 1,
                                         !.ts = now, !.sent = Append(@, CancelRequest)]]
               /\ UNCHANGED <<apiKey, seed, PAIRS, phase, exitStatus, exitCause, timer,
                              sigintHandler, cycleCount, consecutiveErrors>>
    /\ UNCHANGED <<call, now>>
PriceReturn(t, p) ==
    \E r \in PriceResponses : PriceReturnOn(t, p, r) /\ UNCHANGED single

\* the cancel call returns: throw, or log and send the first placement
CancelReturnOn(t, p, r) ==
    /\ Running
    /\ cycles[t][p].pc = "cancel"
    /\ r \in ExchangeResponses
    /\ IF cancelThrows(r)
          THEN Catch(t, p, r, "cancel")
          ELSE /\ cycles' = [cycles EXCEPT ![t][p] =
                               [@ EXCEPT !.pc = "place", !.k = 1, !.res = r, !.nPlace = @ + 1,
                                         !.ts = now, !.sent = Append(@, OrderRequest(1))]]
               /\ UNCHANGED <<apiKey, seed, PAIRS, phase, exitStatus, exitCause, timer,
                              sigintHandler, cycleCount, consecutiveErrors>>
    /\ UNCHANGED <<call, now>>
CancelReturn(t, p) ==
    \E r \in ExchangeResponses : CancelReturnOn(t, p, r) /\ UNCHANGED single

\* placement k returns: send the next one, finish the cycle, start the 401
\* alert, or throw
PlaceReturnOn(t, p, r) ==
    /\ Running
    /\ cycles[t][p].pc = "place"
    /\ r \in ExchangeResponses
    /\ LET c == cycles[t][p] IN
          CASE placeOrder(r) = "throw" -> Catch(t, p, r, "place")
            [] placeOrder(r) = "expired" ->
                 /\ cycles' = [cycles EXCEPT ![t][p] =
                                 [@ EXCEPT !.pc = "expired", !.k = 0, !.mark = 0, !.ts = 0,
                                           !.res = r,
                                           !.alerts = Append(@, "expired")]]
                 /\ UNCHANGED <<apiKey, seed, PAIRS, phase, exitStatus, exitCause, timer,
                                sigintHandler, cycleCount, consecutiveErrors>>
            [] OTHER ->
                 IF c.k < NumPlacements
                 THEN /\ cycles' = [cycles EXCEPT ![t][p] =
                                      [@ EXCEPT !.k = @ + 1, !.res = "none", !.nPlace = @ + 1,
                                                !.ts = now,
                                                !.sent = Append(@, OrderRequest(c.k + 1))]]
                      /\ UNCHANGED <<apiKey, seed, PAIRS, phase, exitStatus, exitCause, timer,
                                     sigintHandler, cycleCount, consecutiveErrors>>
                 ELSE /\ consecutiveErrors' = resetErrors(consecutiveErrors, p)
                      /\ cycles' = [cycles EXCEPT ![t][p] =
                                      [@ EXCEPT !.pc = "done", !.k = 0, !.mark = 0, !.ts = 0,
                                                !.res = "none",
                                                !.errBefore = consecutiveErrors[p]]]
                      /\ UNCHANGED <<apiKey, seed, PAIRS, phase, exitStatus, exitCause, timer,
                                     sigintHandler, cycleCount>>
    /\ UNCHANGED <<call, now>>
PlaceReturn(t, p) ==
    \E r \in ExchangeResponses : PlaceReturnOn(t, p, r) /\ UNCHANGED single

\* the alert of a 401 returns: process.exit(0); an error thrown by the alert
\* would leave placeOrder and land in the catch block of the cycle
ExpiredAlertReturnOn(t, p, o) ==
    /\ Running
    /\ cycles[t][p].pc = "expired"
    /\ o \in AlertOutcomes
    /\ IF sendTelegram(o) = "throw"
          THEN Catch(t, p, o, "place")
          ELSE /\ Exit("0", "expired", FALSE)
               /\ cycles' = [cycles EXCEPT ![t][p] = [@ EXCEPT !.pc = "exit", !.res = o]]
               /\ UNCHANGED <<apiKey, seed, PAIRS, sigintHandler, cycleCount,
                              consecutiveErrors>>
    /\ UNCHANGED <<call, now>>
ExpiredAlertReturn(t, p) ==
    \E o \in AlertOutcomes : ExpiredAlertReturnOn(t, p, o) /\ UNCHANGED single

\* the warning alert returns: settle, or log and send the fatal alert; an
\* error thrown by the alert would reject the promise of the cycle, which
\* Promise.allSettled takes as settled
WarnAlertReturnOn(t, p, o) ==
    /\ Running
    /\ cycles[t][p].pc = "warn"
    /\ o \in AlertOutcomes
    /\ cycles' = [cycles EXCEPT ![t][p] =
                    IF sendTelegram(o) # "throw" /\ reachedMax(consecutiveErrors[p])
                    THEN [@ EXCEPT !.pc = "fatal", !.res = o, !.errBefore = 0,
                                   !.nCancel = 0, !.nPlace = 0, !.sent = <<>>,
                                   !.alerts = Append(@, "fatal")]
                    ELSE [@ EXCEPT !.pc = "done", !.res = o, !.errBefore = 0,
                                   !.nCancel = 0, !.nPlace = 0, !.sent = <<>>]]
    /\ UNCHANGED <<apiKey, seed, PAIRS, phase, exitStatus, exitCause, timer,
                   sigintHandler, cycleCount, consecutiveErrors>>
    /\ UNCHANGED <<call, now>>
WarnAlertReturn(t, p) ==
    \E o \in AlertOutcomes : WarnAlertReturnOn(t, p, o) /\ UNCHANGED single

\* the fatal alert returns: clearInterval(timer); process.exit(1); an error
\* thrown by the alert would reject the promise of the cycle instead
FatalAlertReturnOn(t, p, o) ==
    /\ Running
    /\ cycles[t][p].pc = "fatal"
    /\ o \in AlertOutcomes
    /\ IF sendTelegram(o) = "throw"
          THEN /\ cycles' = [cycles EXCEPT ![t][p] = [@ EXCEPT !.pc = "done", !.res = o]]
               /\ UNCHANGED <<phase, exitStatus, exitCause, timer>>
          ELSE /\ Exit("1", "threshold", TRUE)
               /\ cycles' = [cycles EXCEPT ![t][p] = [@ EXCEPT !.pc = "exit", !.res = o]]
    /\ UNCHANGED <<apiKey, seed, PAIRS, sigintHandler, cycleCount, consecutiveErrors>>
    /\ UNCHANGED <<call, now>>
FatalAlertReturn(t, p) ==
    \E o \in AlertOutcomes : FatalAlertReturnOn(t, p, o) /\ UNCHANGED single

\* Promise.allSettled(PAIRS.map(cycleForPair)) resolves when the promise of
\* every pair has settled
allSettled_Race(t) == \E p \in PAIRS : cycles[t][p].pc = "done"
allSettled(t) ==
    /\ \E p \in PAIRS : cycles[t][p].pc = "done"
    /\ \A p \in PAIRS : cycles[t][p].pc = "done"

\* Promise.allSettled resolves: cycleAll logs and returns; after the first
\* tick the top level goes on to setInterval and process.on("SIGINT")
AllSettledCode(t) ==
    /\ Running
    /\ allSettled(t)
    /\ cycles' = [cycles EXCEPT ![t] = [p \in AllPairs |-> GoneCycle]]
    /\ IF t = 1
       THEN /\ phase' = "loop"
            /\ timer' = "active"
            /\ sigintHandler' = TRUE
       ELSE UNCHANGED <<phase, timer, sigintHandler>>
    /\ UNCHANGED <<apiKey, seed, PAIRS, exitStatus, exitCause, cycleCount, consecutiveErrors>>
    /\ UNCHANGED <<call, now>>
AllSettled(t) == AllSettledCode(t) /\ UNCHANGED single

\* the interval timer fires cycleAll, whatever earlier ticks are doing
IntervalElapsed ==
    /\ phase = "loop"
    /\ timer = "active"
    /\ cycleCount < MaxTicks
    /\ InFlight + Cardinality(PAIRS) <= MaxInFlight
    /\ cycleAll(cycleCount + 1)
    /\ UNCHANGED <<apiKey, seed, PAIRS, phase, exitStatus, exitCause, timer,
                   sigintHandler, consecutiveErrors>>
    /\ UNCHANGED call

TimerFire ==
    /\ IntervalElapsed
    /\ UNCHANGED <<now, single>>

\* SIGINT arrives: the handler, when registered, clears the timer and exits
\* with 0; without a handler the signal kills the process
SigintCode ==
    /\ Running
    /\ IF sigintHandler
       THEN Exit("0", "sigint", TRUE)
       ELSE Exit("SIGINT", "sigint", FALSE)
    /\ UNCHANGED <<apiKey, seed, PAIRS, sigintHandler, cycleCount, consecutiveErrors, cycles>>
    /\ UNCHANGED <<call, now>>
Sigint == SigintCode /\ UNCHANGED single

CycleStep(t, p) ==
    \/ PriceReturn(t, p)
    \/ CancelReturn(t, p)
    \/ PlaceReturn(t, p)
    \/ ExpiredAlertReturn(t, p)
    \/ WarnAlertReturn(t, p)
    \/ FatalAlertReturn(t, p)

Next ==
    \/ Startup
    \/ \E t \in Ticks, p \in AllPairs : CycleStep(t, p)
    \/ \E t \in Ticks : AllSettled(t)
    \/ TimerFire
    \/ Sigint

Spec == Init /\ [][Next]_vars

\* every network call returns or fails in the end, and the event loop runs
\* every continuation that is ready
SpecFair ==
    /\ Spec
    /\ \A t \in Ticks : \A p \in AllPairs : WF_vars(CycleStep(t, p))
    /\ \A t \in Ticks : WF_vars(AllSettled(t))

(* ---------------- the engine with the clock ----------------------------- *)
\* Spec leaves the clock alone: every request is stamped with the same
\* millisecond.  SpecClock lets the clock move between any two runs of code,
\* and the interval timer fire only when the clock has moved, for one
\* configured pair and valid credentials.
TimerFireLater ==
    /\ IntervalElapsed
    /\ now < MaxClock
    /\ now' = now + 1
    /\ UNCHANGED single

ClockTick ==
    /\ Running
    /\ now < MaxClock
    /\ now' = now + 1
    /\ UNCHANGED <<engineVars, call, single>>

InitClock ==
    /\ Init
    /\ PAIRS = {"BTC-USDC"}
    /\ ValidateOK(apiKey, seed) /\ SelfTestOK(seed)

NextClock ==
    \/ Startup
    \/ \E t \in Ticks, p \in AllPairs : CycleStep(t, p)
    \/ \E t \in Ticks : AllSettled(t)
    \/ TimerFireLater
    \/ Sigint
    \/ ClockTick

SpecClock == InitClock /\ [][NextClock]_vars

(* ---------------- the single-pair variant beside the engine ------------- *)
\* The single-pair variant (one symbol, one counter, cycle() on the timer) is
\* given the same credentials and, event for event, the same answers as the
\* engine configured with the one pair BTC-USDC.
ExternalPair == "BTC-USDC"

\* the placements of cycle() in program order: BID[1..LEVELS],
\* ASK[1..LEVELS], 5. Match BUY, 6. Match SELL
SinglePlacement(k) ==
    IF k <= LEVELS THEN [side |-> "BUY", level |-> k, match |-> FALSE]
    ELSE IF k <= LEVELS + LEVELS THEN [side |-> "SELL", level |-> k - LEVELS, match |-> FALSE]
    ELSE IF k = LEVELS + LEVELS + 1 THEN [side |-> "BUY", level |-> 0, match |-> TRUE]
    ELSE [side |-> "SELL", level |-> 0, match |-> TRUE]
SingleLastPlacement == LEVELS + LEVELS + 2
SingleRequest(k) ==
    [kind |-> "order", side |-> SinglePlacement(k).side, level |-> SinglePlacement(k).level,
     match |-> SinglePlacement(k).match]

SingleRunning == single.phase \in {"first", "loop"}
SingleInFlight ==
    Cardinality({t \in Ticks : single.cycles[t].pc \in AwaitingPcs \cup {"done"}})

\* cycle() up to its first await: cycleCount++, the fetch of the mark price
SingleCycleStart(s, t) ==
    [s EXCEPT !.cycleCount = @ + 1,
              !.cycles[t] = [SingleCycle EXCEPT !.pc = "price", !.sent = <<PriceRequest>>]]
\* the catch block of cycle() up to its first await
SingleCatch(s, t) ==
    [s EXCEPT !.consecutiveErrors = @ + 1,
              !.cycles[t] = [@ EXCEPT !.pc = "warn", !.k = 0, !.alerts = Append(@, "warning")]]
\* process.exit(status), after clearInterval(timer) where the code calls it
SingleExit(s, status, clear) ==
    [s EXCEPT !.phase = "exited", !.exitStatus = status,
              !.timer = IF clear /\ @ = "active" THEN "cleared" ELSE @]

\* top-level code: validation, signing self-test, await cycle()
SingleStartup ==
    /\ single.phase = "boot"
    /\ single' = IF ValidateOK(apiKey, seed) /\ SelfTestOK(seed)
                 THEN SingleCycleStart([single EXCEPT !.phase = "first"], 1)
                 ELSE SingleExit(single, "1", FALSE)

\* 1. the fetch of the mark price returns
SinglePriceReturn(t, r) ==
    /\ SingleRunning
    /\ single.cycles[t].pc = "price"
    /\ single' = IF r.status = "reject" \/ r.status # "ok" \/ Falsy(parseFloat(r.markPrice))
                 THEN SingleCatch(single, t)
                 ELSE [single EXCEPT !.cycles[t] =
                          [@ EXCEPT !.pc = "cancel", !.sent = Append(@, CancelRequest)]]

\* 2. the cancel call returns; its status is only logged
SingleCancelReturn(t, r) ==
    /\ SingleRunning
    /\ single.cycles[t].pc = "cancel"
    /\ single' = IF r = "reject"
                 THEN SingleCatch(single, t)
                 ELSE [single EXCEPT !.cycles[t] =
                          [@ EXCEPT !.pc = "place", !.k = 1,
                                    !.sent = Append(@, SingleRequest(1))]]

\* placeOrder returns: 401 starts the expiry alert, another status outside
\* 2xx or a failed request throws, success goes on to the next placement or
\* ends the try block with consecutiveErrors = 0
SinglePlaceReturn(t, r) ==
    /\ SingleRunning
    /\ single.cycles[t].pc = "place"
    /\ single' =
          IF r = "ok"
          THEN IF single.cycles[t].k < SingleLastPlacement
               THEN [single EXCEPT !.cycles[t] =
                        [@ EXCEPT !.k = @ + 1,
                                  !.sent = Append(@, SingleRequest(single.cycles[t].k + 1))]]
               ELSE [single EXCEPT !.consecutiveErrors = 0,
                                   !.cycles[t] = [@ EXCEPT !.pc = "done", !.k = 0]]
          ELSE IF r = "401"
          THEN [single EXCEPT !.cycles[t] =
                   [@ EXCEPT !.pc = "expired", !.k = 0, !.alerts = Append(@, "expired")]]
          ELSE SingleCatch(single, t)

\* the alert of a 401 returns, whatever its outcome: process.exit(0)
SingleExpiredAlertReturn(t, o) ==
    /\ SingleRunning
    /\ single.cycles[t].pc = "expired"
    /\ single' = SingleExit([single EXCEPT !.cycles[t] = [@ EXCEPT !.pc = "exit"]], "0", FALSE)

\* the warning alert returns: the counter is tested
SingleWarnAlertReturn(t, o) ==
    /\ SingleRunning
    /\ single.cycles[t].pc = "warn"
    /\ single' = IF single.consecutiveErrors >= MAX_ERRORS
                 THEN [single EXCEPT !.cycles[t] =
                          [@ EXCEPT !.pc = "fatal", !.sent = <<>>, !.alerts = Append(@, "fatal")]]
                 ELSE [single EXCEPT !.cycles[t] = [@ EXCEPT !.pc = "done", !.sent = <<>>]]

\* the fatal alert returns: clearInterval(timer); process.exit(1)
SingleFatalAlertReturn(t, o) ==
    /\ SingleRunning
    /\ single.cycles[t].pc = "fatal"
    /\ single' = SingleExit([single EXCEPT !.cycles[t] = [@ EXCEPT !.pc = "exit"]], "1", TRUE)

\* cycle() returns; the first one is awaited by the top level, which goes on
\* to setInterval and process.on("SIGINT")
SingleCycleReturn(t) ==
    /\ SingleRunning
    /\ single.cycles[t].pc = "done"
    /\ single' = IF t = 1
                 THEN [single EXCEPT !.cycles[t] = [SingleCycle EXCEPT !.pc = "gone"],
                                     !.phase = "loop", !.timer = "active",
                                     !.sigintHandler = TRUE]
                 ELSE [single EXCEPT !.cycles[t] = [SingleCycle EXCEPT !.pc = "gone"]]

\* the interval timer fires cycle()
SingleTimerFire ==
    /\ single.phase = "loop"
    /\ single.timer = "active"
    /\ single.cycleCount < MaxTicks
    /\ SingleInFlight + 1 <= MaxInFlight
    /\ single' = SingleCycleStart(single, single.cycleCount + 1)

\* SIGINT arrives
SingleSigint ==
    /\ SingleRunning
    /\ single' = IF single.sigintHandler
                 THEN SingleExit(single, "0", TRUE)
                 ELSE SingleExit(single, "SIGINT", FALSE)

\* one event, handled by the engine and by the single-pair variant
BothStartup == StartupCode /\ SingleStartup
BothPriceReturn(t) ==
    \E r \in PriceResponses : PriceReturnOn(t, ExternalPair, r) /\ SinglePriceReturn(t, r)
BothCancelReturn(t) ==
    \E r \in ExchangeResponses : CancelReturnOn(t, ExternalPair, r) /\ SingleCancelReturn(t, r)
BothPlaceReturn(t) ==
    \E r \in ExchangeResponses : PlaceReturnOn(t, ExternalPair, r) /\ SinglePlaceReturn(t, r)
BothExpiredAlertReturn(t) ==
    \E o \in AlertOutcomes :
        ExpiredAlertReturnOn(t, ExternalPair, o) /\ SingleExpiredAlertReturn(t, o)
BothWarnAlertReturn(t) ==
    \E o \in AlertOutcomes : WarnAlertReturnOn(t, ExternalPair, o) /\ SingleWarnAlertReturn(t, o)
BothFatalAlertReturn(t) ==
    \E o \in AlertOutcomes : FatalAlertReturnOn(t, ExternalPair, o) /\ SingleFatalAlertReturn(t, o)
BothSettled(t) == AllSettledCode(t) /\ SingleCycleReturn(t)
BothTimerFire == IntervalElapsed /\ UNCHANGED now /\ SingleTimerFire
BothSigint == SigintCode /\ SingleSigint

InitBoth ==
    /\ Init
    /\ PAIRS = {ExternalPair}

NextBoth ==
    \/ BothStartup
    \/ \E t \in Ticks : BothPriceReturn(t)
    \/ \E t \in Ticks : BothCancelReturn(t)
    \/ \E t \in Ticks : BothPlaceReturn(t)
    \/ \E t \in Ticks : BothExpiredAlertReturn(t)
    \/ \E t \in Ticks : BothWarnAlertReturn(t)
    \/ \E t \in Ticks : BothFatalAlertReturn(t)
    \/ \E t \in Ticks : BothSettled(t)
    \/ BothTimerFire
    \/ BothSigint

SpecBoth == InitBoth /\ [][NextBoth]_vars

(* ---------------- helper functions called on their own ------------------ *)
\* buildQS called on two parameter objects: any object, and the same entries
\* inserted in another order, with or without the entries that have no value
Reorderings(params) ==
    LET n == Len(params)
    IN  {[i \in 1..n |-> params[f[i]]] :
            f \in {g \in [1..n -> 1..n] : \A i \in 1..n : \A j \in 1..n : i # j => g[i] # g[j]}}
BuildQSCalls ==
    UNION {{[fn |-> "buildQS", first |-> a, second |-> b, out |-> <<>>] :
               b \in Reorderings(a) \cup Reorderings(SelectSeq(a, IsSet))} :
           a \in ParamObjects}

\* one pass of the body of the BID and ASK loops: mark prices 0.04 and 50000,
\* spreads 0.001 and 0.005, the quantities of the default pairs
LadderCalls ==
    [fn : {"ladder"}, markPrice : {NOMINAL_PRICE, parseFloat("50000.00").val},
     spread : {1, 5}, quantity : {123, 2000, 15000, 1000000}, i : 1..MaxLevel,
     out : {<<>>}]

\* signedBody called as the engine calls it: for the cancel and for orders,
\* at two instants; the base64 text of a signature ends in padding and may
\* hold "+" and "/"
Timestamps == {"1700000000000", "1700000000001"}
SignatureTexts == {"q0+/Zg==", "AAECAwQFBgcICQ=="}
SignedBodyCalls ==
    [fn : {"signedBody"},
     params : {cancelParams(PairEntry(p)) : p \in AllPairs} \cup
              {placeOrderParams(PairEntry(p), side, "LIMIT", tif, price, qty) :
                  p \in AllPairs, side \in {"BUY", "SELL"}, tif \in {"GTC", ""},
                  price \in {"49950.0000", ""}, qty \in {"undefined", "0.0185"}},
     timestamp : Timestamps,
     out : {<<>>}]

\* the Match step for a mark price of num/den units of 0.0001: the nominal
\* price, 50000, and prices with the eight decimals the oracle prints
MarkPrices ==
    {[num |-> NOMINAL_PRICE, den |-> 1], [num |-> parseFloat("50000.00").val, den |-> 1],
     [num |-> 12345678, den |-> 10000], [num |-> 12345, den |-> 10],
     [num |-> 4, den |-> 10]}
MatchCalls == [fn : {"match"}, pair : AllPairs, markPrice : MarkPrices, out : {<<>>}]

InitHelpers ==
    /\ apiKey = "key"
    /\ seed = [len |-> SEED_HEX_LEN, hex |-> SEED_HEX_LEN]
    /\ PAIRS = AllPairs
    /\ phase = "boot"
    /\ exitStatus = "none"
    /\ exitCause = "none"
    /\ timer = "unset"
    /\ sigintHandler = FALSE
    /\ cycleCount = 0
    /\ consecutiveErrors = [p \in AllPairs |-> 0]
    /\ cycles = [t \in Ticks |-> [p \in AllPairs |-> IdleCycle]]
    /\ \/ call \in BuildQSCalls
       \/ call \in LadderCalls
       \/ call \in SignedBodyCalls
       \/ call \in MatchCalls
    /\ now = 0
    /\ single = SingleIdle

ApplyBuildQS ==
    /\ call.fn = "buildQS"
    /\ call.out = <<>>
    /\ call' = [call EXCEPT !.out = <<buildQS(call.first), buildQS(call.second)>>]
    /\ UNCHANGED <<engineVars, now, single>>

ApplyLadder ==
    /\ call.fn = "ladder"
    /\ call.out = <<>>
    /\ \E bid \in bidPrice(call.markPrice, call.spread, call.i),
          ask \in askPrice(call.markPrice, call.spread, call.i),
          qty \in levelQty(call.quantity, call.i) :
          call' = [call EXCEPT !.out = <<bid, ask, qty>>]
    /\ UNCHANGED <<engineVars, now, single>>

\* signedBody: the canonical string is signed and the body is assembled
ApplySignedBody ==
    /\ call.fn = "signedBody"
    /\ call.out = <<>>
    /\ \E sig \in SignatureTexts :
          LET qs == canonicalString(call.params, call.timestamp)
          IN  call' = [call EXCEPT !.out = <<qs, bodyText(qs, sig)>>]
    /\ UNCHANGED <<engineVars, now, single>>

\* the Match step: mpStr, then the BUY and the SELL
ApplyMatch ==
    /\ call.fn = "match"
    /\ call.out = <<>>
    /\ \E mpStr \in matchPrice(call.markPrice.num, call.markPrice.den) :
          call' = [call EXCEPT !.out = matchOrders(call.pair, mpStr)]
    /\ UNCHANGED <<engineVars, now, single>>

NextHelpers ==
    \/ ApplyBuildQS
    \/ ApplyLadder
    \/ ApplySignedBody
    \/ ApplyMatch

SpecHelpers == InitHelpers /\ [][NextHelpers]_vars

(* ======================= properties ===================================== *)
Settled(c) == c.pc \in {"done", "gone"}
Started(c) == c.pc # "idle"
Failed(c) == c.at # "none"
\* the cycle failed for the MAX_ERRORS-th consecutive time and awaits its warning
AtThreshold(c) == c.pc = "warn" /\ c.errBefore + 1 >= MAX_ERRORS
SeedIs64Hex == seed.len = SEED_HEX_LEN /\ seed.hex = SEED_HEX_LEN
ExternalPairs == PAIRS \ {OWN_EXCHANGE_PAIR}

\* C1: ticks never overlap: when a cycle of tick n+1 has been started, every
\* pair's cycle of tick n has settled.
C1_TicksNeverOverlap ==
    \A t \in Ticks : \A u \in Ticks :
        (t < u /\ \E p \in PAIRS : Started(cycles[u][p]))
            => \A p \in PAIRS : Settled(cycles[t][p])

\* C2: a cycle that failed for the MAX_ERRORS-th consecutive time goes on to
\* the fatal alert and from there to process.exit(1): it never returns
\* normally, and when it ends the process the status is 1.
C2_ThresholdFailureExitsWithOne ==
    [][\A t \in Ticks, p \in PAIRS :
          LET c == cycles[t][p]
              d == cycles'[t][p]
          IN  /\ AtThreshold(c) => d.pc \in {"warn", "fatal"}
              /\ c.pc = "fatal" => d.pc \in {"fatal", "exit"}
              /\ (c.pc = "fatal" /\ d.pc = "exit") =>
                    (exitStatus' = "1" /\ "fatal" \in {c.alerts[i] : i \in DOMAIN c.alerts})]_vars

\* C3: after a 401 on a placement the request is not sent again, the cycle
\* does not enter the catch block (its counter is not incremented for the
\* 401), and when a cycle of the same tick (its own or another pair's) ends
\* the process, the exit status is 0.
C3_ExpiryExitsWithZero ==
    [][\A t \in Ticks, p \in PAIRS :
          LET c == cycles[t][p]
              d == cycles'[t][p]
          IN  c.pc = "expired" =>
                /\ d.nPlace = c.nPlace
                /\ d.pc \in {"expired", "exit"}
                /\ (\E q \in PAIRS : cycles[t][q].pc # "exit" /\ cycles'[t][q].pc = "exit")
                      => exitStatus' = "0"]_vars

\* C4 as stated: for every configured pair, a zero or non-numeric price
\* increments the pair's counter by one and the cycle sends no cancel and no
\* placement.
C4_InvalidPriceFailsEveryPair ==
    [][\A t \in Ticks, p \in PAIRS :
          LET c == cycles[t][p]
              d == cycles'[t][p]
          IN  /\ (c.pc = "price" /\ d.pc # "price" /\ d.res \in {"zero", "nan"}) =>
                    /\ consecutiveErrors'[p] = consecutiveErrors[p] + 1
                    /\ d.pc = "warn" /\ d.at = "price"
              /\ d.at = "price" => (d.nCancel = 0 /\ d.nPlace = 0)]_vars

\* C4 amended: for every configured pair that takes its price from the
\* external venue (every pair but the own-exchange pair), a zero or
\* non-numeric price increments the pair's counter by one and the cycle sends
\* no cancel and no placement.
C4_InvalidPriceFailsExternalPair ==
    [][\A t \in Ticks, p \in ExternalPairs :
          LET c == cycles[t][p]
              d == cycles'[t][p]
          IN  /\ (c.pc = "price" /\ d.pc # "price" /\ d.res \in {"zero", "nan"}) =>
                    /\ consecutiveErrors'[p] = consecutiveErrors[p] + 1
                    /\ d.pc = "warn" /\ d.at = "price"
              /\ d.at = "price" => (d.nCancel = 0 /\ d.nPlace = 0)]_vars

C4_Witness ==
    \E t \in Ticks, p \in ExternalPairs :
        /\ cycles[t][p].pc = "warn" /\ cycles[t][p].at = "price"
        /\ cycles[t][p].res \in {"zero", "nan"}
        /\ consecutiveErrors[p] = cycles[t][p].errBefore + 1

\* C5: the step that ends a fully successful cycle (the last placement is
\* accepted after all the others) sets the pair's counter to 0, whatever it
\* was.
C5_SuccessResetsCounter ==
    [][\A t \in Ticks, p \in PAIRS :
          LET c == cycles[t][p]
              d == cycles'[t][p]
          IN  (c.pc = "place" /\ d.pc = "done") =>
                /\ c.nCancel = 1 /\ c.nPlace = NumPlacements
                /\ consecutiveErrors'[p] = 0]_vars

C5_Witness ==
    \E t \in Ticks, p \in PAIRS :
        /\ cycles[t][p].pc = "done" /\ ~Failed(cycles[t][p])
        /\ cycles[t][p].errBefore > 0
        /\ consecutiveErrors[p] = 0

\* a step of pair A's cycles leaves every other pair's counter alone
C6_CountersIsolated ==
    \A t \in Ticks, A \in PAIRS :
        cycles'[t][A] # cycles[t][A] =>
            \A B \in PAIRS \ {A} : consecutiveErrors'[B] = consecutiveErrors[B]

C7_CancelNon2xxProceeds ==
    [][\A t \in Ticks, p \in PAIRS :
          LET c == cycles[t][p]
              d == cycles'[t][p]
          IN  (c.pc = "cancel" /\ d.pc # "cancel" /\ d.res \in {"non2xx", "401"}) =>
                /\ d.pc = "place" /\ d.k = 1
                /\ Placement(d.k) = [side |-> "BUY", level |-> 1, match |-> FALSE]
                /\ d.nPlace = c.nPlace + 1
                /\ consecutiveErrors' = consecutiveErrors
                /\ d.alerts = c.alerts]_vars

C7_Witness ==
    \E t \in Ticks, p \in PAIRS :
        /\ cycles[t][p].pc = "place" /\ cycles[t][p].k = 1
        /\ cycles[t][p].res \in {"non2xx", "401"}
        /\ cycles[t][p].nPlace = 1

\* C8: a counter grows only when a price fetch or a placement fails; the
\* cancel call, however it ends (a transport error included), leaves the
\* counter alone and is followed by the first placement.
C8_OnlyPriceAndPlacementCount ==
    [][\A t \in Ticks, p \in PAIRS :
          LET c == cycles[t][p]
              d == cycles'[t][p]
          IN  /\ (c.pc # "warn" /\ d.pc = "warn") => d.at \in {"price", "place"}
              /\ (c.pc = "cancel" /\ d.pc # "cancel") =>
                    /\ d.pc = "place" /\ d.nPlace = 1
                    /\ consecutiveErrors'[p] = consecutiveErrors[p]]_vars

\* C9: when SIGINT has ended the process, the timer is not active and the
\* exit status is 0.
C9_SigintExitsWithZero ==
    exitCause = "sigint" => (exitStatus = "0" /\ timer # "active")

\* C10: a cycle is started or a request sent only with a non-empty API key, a
\* seed of 64 hex characters and a signing self-test that succeeded; otherwise
\* the top-level code ends the process with status 1 before the first tick.
C10_StartupGuardsFirstTick ==
    LET ok == apiKey # "" /\ SeedIs64Hex /\ getPrivateKeyOK(seed)
    IN  /\ (cycleCount > 0 \/ \E t \in Ticks, p \in AllPairs : Started(cycles[t][p])) => ok
        /\ (phase # "boot" /\ ~ok) =>
              /\ phase = "exited" /\ exitStatus = "1" /\ exitCause = "startup"
              /\ cycleCount = 0
              /\ \A t \in Ticks, p \in AllPairs : ~Started(cycles[t][p])

C10_Witness ==
    /\ phase = "exited" /\ exitCause = "startup" /\ exitStatus = "1"
    /\ apiKey # "" /\ seed.len = SEED_HEX_LEN /\ seed.hex < SEED_HEX_LEN

\* C11: an alert whose delivery fails (an answer outside 2xx, a rejected
\* fetch) changes no counter and the code after it runs as after a delivered
\* alert: after the warning the cycle settles or, with the counter at
\* MAX_ERRORS, goes on to the fatal alert; after the fatal alert the process
\* exits with 1; after the alert of a 401 it exits with 0.
AlertFailed(d) == d.res \in {"non2xx", "reject"}
C11_AlertFailureNeverPropagates ==
    [][\A t \in Ticks, p \in PAIRS :
          LET c == cycles[t][p]
              d == cycles'[t][p]
          IN  (c.pc \in {"warn", "fatal", "expired"} /\ d.pc # c.pc /\ AlertFailed(d)) =>
                /\ consecutiveErrors' = consecutiveErrors
                /\ c.pc = "warn" =>
                      d.pc = IF consecutiveErrors[p] >= MAX_ERRORS THEN "fatal" ELSE "done"
                /\ c.pc = "fatal" => (d.pc = "exit" /\ exitStatus' = "1")
                /\ c.pc = "expired" => (d.pc = "exit" /\ exitStatus' = "0")]_vars

\* the warning alert failed with the counter at MAX_ERRORS, the fatal alert
\* failed too, and the process has exited with 1
C11_Witness ==
    \E t \in Ticks, p \in PAIRS :
        /\ cycles[t][p].pc = "exit" /\ cycles[t][p].res = "reject"
        /\ cycles[t][p].alerts = <<"warning", "fatal">>
        /\ exitStatus = "1" /\ consecutiveErrors[p] = MAX_ERRORS

Abs(x) == IF x < 0 THEN -x ELSE x
\* x is within half a unit of m * permille / 1000
HalfUnitFrom(x, m, permille) ==
    2 * Abs(1000 * (x - (m \div 1000) * permille) - (m % 1000) * permille) <= 1000
C13_LadderPricesAndQuantities ==
    (call.fn = "ladder" /\ call.out # <<>>) =>
        LET m == call.markPrice
            s == call.spread
            i == call.i
            bid == call.out[1]
            ask == call.out[2]
            qty == call.out[3]
        IN  /\ HalfUnitFrom(bid, m, 1000 - s * i)
            /\ HalfUnitFrom(ask, m, 1000 + s * i)
            /\ 2 * Abs(2 * qty - call.quantity * (i + 1)) <= 2
            /\ (m = 500000000 /\ s = 1 /\ i = 1) => (bid = 499500000 /\ ask = 500500000)
            /\ (m = 500000000 /\ s = 1 /\ i = 3) =>
                  (bid = 498500000 /\ ask = 501500000 /\ qty = 2 * call.quantity)

\* the example at level 3 has been computed for the quantity 0.0123
C13_Witness ==
    /\ call.fn = "ladder" /\ call.out # <<>>
    /\ call.markPrice = 500000000 /\ call.spread = 1 /\ call.i = 3
    /\ call.quantity = 123
    /\ call.out = <<498500000, 501500000, 246>>

\* C14: two requests on the wire at the same time never carry the same
\* signed body.
AwaitsExchange(c) == c.pc \in {"cancel", "place"}
C14_NoPayloadTwice ==
    \A p \in PAIRS : \A t \in Ticks : \A u \in Ticks :
        (t < u /\ AwaitsExchange(cycles[t][p]) /\ AwaitsExchange(cycles[u][p]))
            => wireBody(p, cycles[t][p]) # wireBody(p, cycles[u][p])

\* C16: the requests of a cycle go out in the order price fetch, cancel, BUY
\* level 1..LEVELS, SELL level 1..LEVELS, self-cross BUY, self-cross SELL, one
\* at a time, each in the step in which the answer to the one before it is
\* handled: the first placement when the cancel call returns, the first ask
\* when the last bid returns.
Ladder(side) == [i \in 1..LEVELS |-> [kind |-> "order", side |-> side, level |-> i, match |-> FALSE]]
SelfCross(side) == [kind |-> "order", side |-> side, level |-> 0, match |-> TRUE]
RequestOrder ==
    <<[kind |-> "price", side |-> "none", level |-> 0, match |-> FALSE],
      [kind |-> "cancel", side |-> "none", level |-> 0, match |-> FALSE]>>
    \o Ladder("BUY") \o Ladder("SELL") \o <<SelfCross("BUY"), SelfCross("SELL")>>
AwaitedAt(request) ==
    CASE request.kind = "price"  -> "price"
      [] request.kind = "cancel" -> "cancel"
      [] OTHER                   -> "place"
C16_RequestsInOrder ==
    [][\A t \in Ticks, p \in PAIRS :
          LET c == cycles[t][p]
              d == cycles'[t][p]
          IN  /\ Len(d.sent) <= Len(RequestOrder)
              /\ d.sent = SubSeq(RequestOrder, 1, Len(d.sent))
              /\ Len(d.sent) > Len(c.sent) =>
                    /\ Len(d.sent) = Len(c.sent) + 1
                    /\ d.pc = AwaitedAt(d.sent[Len(d.sent)])
                    /\ IF c.sent = <<>> THEN c.pc = "idle"
                       ELSE c.pc = AwaitedAt(c.sent[Len(c.sent)])]_vars

C16_Witness ==
    \E t \in Ticks, p \in PAIRS :
        /\ cycles[t][p].pc = "place"
        /\ cycles[t][p].sent = RequestOrder

\* C17: when a placement fails with anything but a 401, the cycle enters its
\* catch block in the same step with the counter of its pair one higher, and
\* from then on it sends no request and adds nothing more to the counter.
C17_PlacementFailureAbortsCycle ==
    [][\A t \in Ticks, p \in PAIRS :
          LET c == cycles[t][p]
              d == cycles'[t][p]
          IN  /\ (c.pc = "place" /\ d # c /\ d.res \in {"non2xx", "reject"}) =>
                    /\ d.pc = "warn" /\ d.at = "place"
                    /\ d.sent = c.sent /\ d.nPlace = c.nPlace
                    /\ consecutiveErrors'[p] = consecutiveErrors[p] + 1
              /\ (c.at = "place" /\ d # c) =>
                    /\ d.sent \in {c.sent, <<>>}
                    /\ d.pc \in {"fatal", "done", "exit", "gone"}
                    /\ consecutiveErrors' = consecutiveErrors]_vars

\* the second bid has failed: the asks and the self-cross orders are not sent
C17_Witness ==
    \E t \in Ticks, p \in PAIRS :
        /\ cycles[t][p].pc = "warn" /\ cycles[t][p].at = "place"
        /\ cycles[t][p].res = "non2xx"
        /\ cycles[t][p].nPlace = 2 /\ Len(cycles[t][p].sent) = 4
        /\ consecutiveErrors[p] = cycles[t][p].errBefore + 1

\* C18: no cycle sends a request twice, and a cycle that has ended with
\* success has sent one cancel and 2 x LEVELS + 2 placements: for each level
\* one BUY and one SELL of the ladder, and one self-cross BUY and one
\* self-cross SELL.
Succeeded(c) == c.pc = "done" /\ ~Failed(c)
TimesSent(c, request) == Cardinality({i \in DOMAIN c.sent : c.sent[i] = request})
C18_ExactlyOnceOrderIntent ==
    \A t \in Ticks, p \in PAIRS :
        LET c == cycles[t][p]
        IN  /\ \A i \in DOMAIN c.sent : TimesSent(c, c.sent[i]) = 1
            /\ Succeeded(c) =>
                  /\ Cardinality({i \in DOMAIN c.sent : c.sent[i].kind = "cancel"}) = 1
                  /\ Cardinality({i \in DOMAIN c.sent : c.sent[i].kind = "order"}) = 2 * LEVELS + 2
                  /\ \A side \in {"BUY", "SELL"} :
                        /\ TimesSent(c, [kind |-> "order", side |-> side, level |-> 0,
                                         match |-> TRUE]) = 1
                        /\ \A i \in 1..LEVELS :
                              TimesSent(c, [kind |-> "order", side |-> side, level |-> i,
                                            match |-> FALSE]) = 1

C18_Witness ==
    \E t \in Ticks, p \in PAIRS :
        /\ Succeeded(cycles[t][p])
        /\ Len(cycles[t][p].sent) = 2 * LEVELS + 4
        /\ cycles[t][p].nCancel = 1 /\ cycles[t][p].nPlace = 2 * LEVELS + 2

\* C19: under SpecFair every cycle that awaits a call settles or the process
\* exits; a cycle settles either from its last placement, as a success with
\* the counter of its pair reset, or from the warning of its catch block, as
\* a failure; and cycleAll returns from a tick only when the cycle of every
\* configured pair has settled.
C19_EveryCycleSettles ==
    /\ \A t \in Ticks : \A p \in AllPairs :
          (cycles[t][p].pc \in AwaitingPcs) ~> (Settled(cycles[t][p]) \/ phase = "exited")
    /\ [][\A t \in Ticks, p \in PAIRS :
            LET c == cycles[t][p]
                d == cycles'[t][p]
            IN  /\ (c.pc # "done" /\ d.pc = "done") =>
                      \/ c.pc = "place" /\ ~Failed(d) /\ consecutiveErrors'[p] = 0
                      \/ c.pc = "warn" /\ Failed(d) /\ d.alerts = <<"warning">>
                /\ (c.pc # "gone" /\ d.pc = "gone") =>
                      \A q \in PAIRS : cycles[t][q].pc = "done"]_vars

\* a tick of two pairs in which one cycle has settled as a failure and the
\* other as a success
C19_Witness ==
    \E t \in Ticks, p \in PAIRS, q \in PAIRS :
        /\ cycles[t][p].pc = "done" /\ Failed(cycles[t][p])
        /\ Succeeded(cycles[t][q])

\* C20: a cycle that fails increments the counter of its pair and then emits
\* one warning; when that increment brought the counter to MAX_ERRORS the
\* fatal alert follows the warning, and a running process exits with status 1
\* only from a cycle that has emitted the warning and then the fatal alert.
\* (Exits by Startup are those of Validate and of the self-test, before any
\* cycle exists.)
C20_WarningThenFatalBeforeExit ==
    [][\A t \in Ticks, p \in PAIRS :
          LET c == cycles[t][p]
              d == cycles'[t][p]
          IN  /\ (c.pc # "warn" /\ d.pc = "warn") =>
                    /\ consecutiveErrors'[p] = consecutiveErrors[p] + 1
                    /\ d.alerts = <<"warning">>
              /\ (c.pc = "warn" /\ d.pc # "warn") =>
                    /\ d.alerts \in {<<"warning">>, <<"warning", "fatal">>}
                    /\ AtThreshold(c) => d.alerts = <<"warning", "fatal">>
              /\ (Running /\ d.pc = "exit" /\ c.pc # "exit" /\ exitStatus' = "1") =>
                    c.alerts = <<"warning", "fatal">>]_vars

\* C21: the signed string is the canonical string of the parameters and the
\* timestamp: one key=value field for each of them, keys strictly ascending
\* in byte order, no signature field; the payload is that string followed by
\* one signature field, and the payload without its last field is the signed
\* string.
RECURSIVE split(_, _)
split(s, sep) ==
    IF indexOf(s, sep) = 0 THEN <<s>>
    ELSE <<SubSeq(s, 1, indexOf(s, sep) - 1)>>
         \o split(SubSeq(s, indexOf(s, sep) + 1, Len(s)), sep)
fieldKey(f) == SubSeq(f, 1, indexOf(f, "=") - 1)
fieldValue(f) == SubSeq(f, indexOf(f, "=") + 1, Len(f))
\* the ASCII characters of keys and values in the order of their bytes
Ascii == "%+-./0123456789=ABCDEFGHIJKLMNOPQRSTUVWXYZ_abcdefghijklmnopqrstuvwxyz"
RECURSIVE byteLess(_, _)
byteLess(a, b) ==
    IF b = "" THEN FALSE
    ELSE IF a = "" THEN TRUE
    ELSE IF charAt(a, 1) # charAt(b, 1)
    THEN indexOf(Ascii, charAt(a, 1)) < indexOf(Ascii, charAt(b, 1))
    ELSE byteLess(SubSeq(a, 2, Len(a)), SubSeq(b, 2, Len(b)))
\* the position of the last occurrence of a character, 0 when absent
lastIndexOf(s, ch) ==
    LET hits == {i \in 1..Len(s) : charAt(s, i) = ch}
    IN  IF hits = {} THEN 0 ELSE CHOOSE i \in hits : \A j \in hits : i >= j
withoutLastField(payload) == SubSeq(payload, 1, lastIndexOf(payload, "&") - 1)
C21_SignedStringIsPayloadWithoutSignature ==
    (call.fn = "signedBody" /\ call.out # <<>>) =>
        LET signed == split(call.out[1], "&")
            payload == split(call.out[2], "&")
            given == Append(call.params, [key |-> "timestamp", value |-> call.timestamp])
        IN  /\ \A i \in DOMAIN signed : indexOf(signed[i], "=") # 0
            /\ {<<fieldKey(signed[i]), fieldValue(signed[i])>> : i \in DOMAIN signed}
                  = {<<given[i].key, given[i].value>> : i \in DOMAIN given}
            /\ Len(signed) = Len(given)
            /\ \A i \in 1..(Len(signed) - 1) :
                  byteLess(fieldKey(signed[i]), fieldKey(signed[i + 1]))
            /\ \A i \in DOMAIN signed : fieldKey(signed[i]) # "signature"
            /\ Len(payload) = Len(signed) + 1
            /\ \A i \in DOMAIN signed : payload[i] = signed[i]
            /\ fieldKey(payload[Len(payload)]) = "signature"
            /\ withoutLastField(call.out[2]) = call.out[1]

\* the body of a BUY order with all seven parameters
C21_Witness ==
    /\ call.fn = "signedBody" /\ call.out # <<>>
    /\ call.out[1] = "price=49950.0000&productId=2&quantity=0.0185&side=BUY&symbol=BTCUSDCPERP&timeInForce=GTC&timestamp=1700000000000&type=LIMIT"
    /\ call.out[2] = call.out[1] \o "&signature=q0%2B%2FZg%3D%3D"

\* C22: when the cycle of the own-exchange pair gets from the exchange's
\* mark-price endpoint a status outside 2xx, an answer without the field, a
\* zero or a non-numeric value, the same step takes the nominal price and
\* sends the cancel request, the counter of the pair is not touched, and the
\* placements of that cycle are computed from the nominal price.
NoUsablePrice == {"non2xx", "missing", "zero", "nan"}
C22_OwnPairFallsBackToNominalPrice ==
    [][\A t \in Ticks :
          LET c == cycles[t][OWN_EXCHANGE_PAIR]
              d == cycles'[t][OWN_EXCHANGE_PAIR]
          IN  /\ (OWN_EXCHANGE_PAIR \in PAIRS /\ c.pc = "price" /\ d.pc # "price"
                    /\ d.res \in NoUsablePrice) =>
                    /\ d.pc = "cancel" /\ ~Failed(d)
                    /\ d.mark = NOMINAL_PRICE
                    /\ d.sent = <<PriceRequest, CancelRequest>>
                    /\ consecutiveErrors'[OWN_EXCHANGE_PAIR] = consecutiveErrors[OWN_EXCHANGE_PAIR]
              /\ (c.pc = "cancel" /\ d.pc = "place") => d.mark = c.mark]_vars

\* the own-exchange pair got no usable price and is awaiting its second
\* placement, computed from the nominal price
C22_Witness ==
    \E t \in Ticks :
        /\ OWN_EXCHANGE_PAIR \in PAIRS
        /\ cycles[t][OWN_EXCHANGE_PAIR].pc = "place"
        /\ cycles[t][OWN_EXCHANGE_PAIR].k = 2
        /\ cycles[t][OWN_EXCHANGE_PAIR].mark = NOMINAL_PRICE

\* C23 as stated: the self-cross BUY and SELL are LIMIT GTC orders with the
\* same price, equal to the mark price of the cycle, and the same quantity,
\* the base quantity of the pair.
SelfCrossPair(out) ==
    /\ out[1].side = "BUY" /\ out[2].side = "SELL"
    /\ \A j \in 1..2 : out[j].type = "LIMIT" /\ out[j].timeInForce = "GTC"
    /\ out[1].price = out[2].price
    /\ out[1].qty = out[2].qty
C23_SelfCrossAtMarkPrice ==
    (call.fn = "match" /\ call.out # <<>>) =>
        /\ SelfCrossPair(call.out)
        /\ call.out[1].price * call.markPrice.den = call.markPrice.num
        /\ call.out[1].qty = baseQuantity(call.pair)

\* C23 amended: the common price is the mark price rounded to four decimals,
\* within half a unit of the fourth decimal of the mark price.
C23_SelfCrossAtRoundedMarkPrice ==
    (call.fn = "match" /\ call.out # <<>>) =>
        /\ SelfCrossPair(call.out)
        /\ 2 * Abs(call.out[1].price * call.markPrice.den - call.markPrice.num)
              <= call.markPrice.den
        /\ call.out[1].qty = baseQuantity(call.pair)

\* mark price 0.12345678: both orders at 0.1235, quantity 0.0123
C23_Witness ==
    /\ call.fn = "match" /\ call.out # <<>>
    /\ call.pair = "BTC-USDC"
    /\ call.markPrice = [num |-> 12345678, den |-> 10000]
    /\ call.out[1].price = 1235 /\ call.out[2].price = 1235
    /\ call.out[2].qty = 123

\* C24: the counter of every pair is always within 0..MAX_ERRORS, and no
\* cycle is started for a pair whose counter is at MAX_ERRORS.
C24_CounterWithinThreshold ==
    /\ [](\A p \in AllPairs : consecutiveErrors[p] \in 0..MAX_ERRORS)
    /\ [][\A t \in Ticks, p \in PAIRS :
            (cycles[t][p].pc = "idle" /\ cycles'[t][p].pc = "price")
                => consecutiveErrors[p] < MAX_ERRORS]_vars

\* C25: while a cycle of one pair is between detecting a fatal condition (a
\* 401 on a placement, or the counter found at the threshold) and the exit of
\* the process, no cycle of another pair sends a cancel or placement request.
FatalDetected(c) == c.pc \in {"expired", "fatal"}
C25_NoRequestAfterFatalDetection ==
    [][\A t \in Ticks, p \in PAIRS :
          FatalDetected(cycles[t][p]) =>
              \A u \in Ticks, q \in PAIRS \ {p} :
                  Len(cycles'[u][q].sent) <= Len(cycles[u][q].sent)]_vars

\* C26: at every level the rounded bid is strictly below the rounded
\* self-cross price of the same mark price and the rounded ask strictly above
\* it.
C26_LadderStrictlyAroundMark ==
    (call.fn = "ladder" /\ call.out # <<>>) =>
        \A mpStr \in matchPrice(call.markPrice, 1) :
            call.out[1] < mpStr /\ mpStr < call.out[2]

\* C27: a 401 answer to the cancel call is handled like any other answer
\* outside 2xx: the same step sends the first bid, the counter of the pair
\* and the exit state of the process do not change, and no alert is sent.
C27_CancelExpiryNotFatal ==
    [][\A t \in Ticks, p \in PAIRS :
          LET c == cycles[t][p]
              d == cycles'[t][p]
          IN  (c.pc = "cancel" /\ d.pc # "cancel" /\ d.res = "401") =>
                /\ d.pc = "place" /\ d.k = 1
                /\ d.sent = Append(c.sent, OrderRequest(1))
                /\ OrderRequest(1) = [kind |-> "order", side |-> "BUY", level |-> 1, match |-> FALSE]
                /\ d.alerts = c.alerts /\ ~Failed(d)
                /\ consecutiveErrors' = consecutiveErrors
                /\ phase' = phase /\ exitStatus' = exitStatus]_vars

\* the cancel call was answered 401 and the first bid is awaited
C27_Witness ==
    \E t \in Ticks, p \in PAIRS :
        /\ cycles[t][p].pc = "place" /\ cycles[t][p].k = 1
        /\ cycles[t][p].res = "401"
        /\ phase \in {"first", "loop"}

\* C28: the engine with the one pair BTC-USDC and the single-pair variant,
\* given the same answers event by event, have sent the same requests (kind,
\* side, level) in every cycle, hold the same consecutiveErrors, have taken
\* the same exit decision with the same status, and accept the same events
\* next.
engineOnly == <<engineVars, call, now>>
SameNextEvents ==
    /\ (ENABLED Startup) <=> (ENABLED (SingleStartup /\ UNCHANGED engineOnly))
    /\ (ENABLED TimerFire) <=> (ENABLED (SingleTimerFire /\ UNCHANGED engineOnly))
    /\ (ENABLED Sigint) <=> (ENABLED (SingleSigint /\ UNCHANGED engineOnly))
    /\ \A t \in Ticks :
          /\ (ENABLED PriceReturn(t, ExternalPair))
                <=> (ENABLED (\E r \in PriceResponses :
                                SinglePriceReturn(t, r) /\ UNCHANGED engineOnly))
          /\ (ENABLED CancelReturn(t, ExternalPair))
                <=> (ENABLED (\E r \in ExchangeResponses :
                                SingleCancelReturn(t, r) /\ UNCHANGED engineOnly))
          /\ (ENABLED PlaceReturn(t, ExternalPair))
                <=> (ENABLED (\E r \in ExchangeResponses :
                                SinglePlaceReturn(t, r) /\ UNCHANGED engineOnly))
          /\ (ENABLED ExpiredAlertReturn(t, ExternalPair))
                <=> (ENABLED (\E o \in AlertOutcomes :
                                SingleExpiredAlertReturn(t, o) /\ UNCHANGED engineOnly))
          /\ (ENABLED WarnAlertReturn(t, ExternalPair))
                <=> (ENABLED (\E o \in AlertOutcomes :
                                SingleWarnAlertReturn(t, o) /\ UNCHANGED engineOnly))
          /\ (ENABLED FatalAlertReturn(t, ExternalPair))
                <=> (ENABLED (\E o \in AlertOutcomes :
                                SingleFatalAlertReturn(t, o) /\ UNCHANGED engineOnly))
          /\ (ENABLED AllSettled(t))
                <=> (ENABLED (SingleCycleReturn(t) /\ UNCHANGED engineOnly))
C28_SinglePairEngineMatchesVariant ==
    (PAIRS = {ExternalPair}) =>
        /\ \A t \in Ticks : single.cycles[t].sent = cycles[t][ExternalPair].sent
        /\ single.consecutiveErrors = consecutiveErrors[ExternalPair]
        /\ (single.phase = "exited") <=> (phase = "exited")
        /\ single.exitStatus = exitStatus
        /\ SameNextEvents

\* both have failed MAX_ERRORS times in a row, sent the fatal alert and
\* exited with status 1
C28_Witness ==
    /\ PAIRS = {ExternalPair}
    /\ single.phase = "exited" /\ single.exitStatus = "1" /\ exitStatus = "1"
    /\ single.consecutiveErrors = MAX_ERRORS
    /\ consecutiveErrors[ExternalPair] = MAX_ERRORS
    /\ \E t \in Ticks : single.cycles[t].pc = "exit" /\ cycles[t][ExternalPair].pc = "exit"

====
